---- MODULE Spec2Model ----
(***************************************************************************)
(* Model of src/utils/count_tokens.py: a command-line script that reads a  *)
(* file as UTF-8 text, asks the tiktoken encoder for its tokens and prints *)
(* their number.                                                           *)
(*                                                                         *)
(* One process executes main() statement by statement (pc).  The file      *)
(* system (fs) and the installed tokenizer (tokenizer) are the environment *)
(* of the process; they outlive it, so a further invocation (NewRun) finds *)
(* them as the previous one left them.  The strings written to the console *)
(* are kept as records, one per print() call.  The console is assumed to   *)
(* accept every line written to it.                                        *)
(*                                                                         *)
(* Python's sys.argv[0] is argv[1] here: TLA+ sequences start at 1, so the *)
(* script's sys.argv[1] is argv[2] and len(sys.argv) < 2 is Len(argv) < 2. *)
(***************************************************************************)
EXTENDS Integers, Sequences, FiniteSets, TLC

\* ------------------------------------------------------------------ bounds

\* Most positional arguments given on a command line.
MaxArgs == 2

\* Most bytes in a file.
MaxFileLen == 2

\* ------------------------------------------------------------- environment

\* The paths a command line can name.
Paths == {"a", "b"}

\* The name the script is started under (sys.argv[0]).
Prog == "count_tokens.py"

\* The bytes files are made of: 'h', and the two bytes of U+00E9.  195 alone,
\* or 169 alone, is not UTF-8.
Bytes == {104, 195, 169}

SeqsUpTo(S, n) == UNION {[1..k -> S] : k \in 0..n}

ByteSeqs == SeqsUpTo(Bytes, MaxFileLen)

\* What a path names: nothing, a file the process may not open, or a
\* readable file with its bytes.
FileStates ==
    {[kind |-> "missing", bytes |-> <<>>], [kind |-> "denied", bytes |-> <<>>]}
        \cup {[kind |-> "file", bytes |-> b] : b \in ByteSeqs}

\* What tiktoken.encoding_for_model("gpt-5") does in this installation: it
\* returns an encoding, it does not know the model (KeyError), or it fails to
\* find its vocabulary file (FileNotFoundError).
TokenizerLoads == {"ok", "KeyError", "FileNotFoundError"}

ArgvSet == {<<Prog>> \o a : a \in SeqsUpTo(Paths, MaxArgs)}

\* --------------------------------------------------------------- variables

VARIABLES
    argv,         \* sys.argv
    fs,           \* the file system: path -> FileStates
    tokenizer,    \* the installed tokenizer: an element of TokenizerLoads
    pc,           \* the statement main() is at
    filepath,     \* main's local filepath ("" before line 23)
    f,            \* read_file's file object: "none", "open" or "closed"
    ret,          \* the text f.read() returned, until read_file returns it
    file_content, \* main's local file_content
    num_tokens,   \* main's local num_tokens (-1 before line 26 returns)
    exc,          \* the exception raised, then handled: [type |-> ...]
    stdout,       \* the lines printed to standard output
    stderr,       \* the lines printed to standard error
    exit_status,  \* the exit status of the process (-1 while it runs)
    calls,        \* calls and returns of read_file and count_tokens, this run
    prev          \* the previous invocation: its argv, output and status

vars == <<argv, fs, tokenizer, pc, filepath, f, ret, file_content, num_tokens,
          exc, stdout, stderr, exit_status, calls, prev>>

\* ----------------------------------------------------------------- helpers

NoExc == [type |-> "None"]

Raise(t) == [type |-> t]

\* A line of output: what print() was given.
Line(kind, path, n, err) == [kind |-> kind, path |-> path, n |-> n, err |-> err]

\* bytes.decode('utf-8') on one- and two-byte sequences: [ok, text], text a
\* sequence of code points; ok is FALSE where Python raises UnicodeDecodeError.
RECURSIVE Utf8Decode(_)
Utf8Decode(b) ==
    IF b = <<>> THEN [ok |-> TRUE, text |-> <<>>]
    ELSE IF b[1] < 128 THEN
        LET rest == Utf8Decode(Tail(b))
        IN  [ok |-> rest.ok, text |-> <<b[1]>> \o rest.text]
    ELSE IF b[1] >= 194 /\ b[1] <= 223 /\ Len(b) >= 2
            /\ b[2] >= 128 /\ b[2] <= 191 THEN
        LET rest == Utf8Decode(Tail(Tail(b)))
        IN  [ok |-> rest.ok,
             text |-> <<(b[1] - 192) * 64 + (b[2] - 128)>> \o rest.text]
    ELSE [ok |-> FALSE, text |-> <<>>]

\* str.encode('utf-8') on code points below 2048.
RECURSIVE Utf8Encode(_)
Utf8Encode(t) ==
    IF t = <<>> THEN <<>>
    ELSE IF t[1] < 128 THEN <<t[1]>> \o Utf8Encode(Tail(t))
    ELSE <<192 + (t[1] \div 64), 128 + (t[1] % 64)>> \o Utf8Encode(Tail(t))

\* enc.encode(text): the tokens of a byte-level encoding with an empty merge
\* table, one token per UTF-8 byte of the text.  The vocabulary of the real
\* encoding is the library's; what the script relies on is that the tokens
\* are a function of the text.
Encode(text) == Utf8Encode(text)

\* Faulty variant of HandlerFor: the generic clause comes first and catches
\* every exception, FileNotFoundError included.
HandlerForGenericFirst(e) == "handler_exc"

\* The except clause of main's try statement that catches e: the clauses are
\* tried in order, FileNotFoundError before Exception.
HandlerFor(e) ==
    IF e.type = "FileNotFoundError" THEN "handler_fnf" ELSE "handler_exc"

\* ------------------------------------------------------------------- Init

NoRun == [valid |-> FALSE, argv |-> <<>>, stdout |-> <<>>, exit_status |-> -1]

NoCalls == [read |-> 0, readOk |-> 0, count |-> 0, countOk |-> 0]

Init ==
    /\ argv \in ArgvSet
    /\ fs \in [Paths -> FileStates]
    /\ tokenizer \in TokenizerLoads
    /\ pc = "main"
    /\ filepath = ""
    /\ f = "none"
    /\ ret = <<>>
    /\ file_content = <<>>
    /\ num_tokens = -1
    /\ exc = NoExc
    /\ stdout = <<>>
    /\ stderr = <<>>
    /\ exit_status = -1
    /\ calls = NoCalls
    /\ prev = NoRun

\* ---------------------------------------------------------------- actions

\* Line 19: if len(sys.argv) < 2
ArgCheck ==
    /\ pc = "main"
    /\ pc' = IF Len(argv) < 2 THEN "usage" ELSE "assign"
    /\ UNCHANGED <<argv, fs, tokenizer, filepath, f, ret, file_content,
                   num_tokens, exc, stdout, stderr, exit_status, calls, prev>>

\* Lines 20-21: print(f"Usage: python3 {sys.argv[1]} <filepath>"); sys.exit(1).
\* The f-string indexes sys.argv[1] before print is called.  Where there is no
\* such element the index raises IndexError outside any try statement: the
\* interpreter prints the traceback to standard error and exits with 1.
Usage ==
    /\ pc = "usage"
    /\ IF Len(argv) >= 2
       THEN /\ stdout' = Append(stdout, Line("Usage", argv[2], 0, "None"))
            /\ UNCHANGED <<exc, stderr>>
       ELSE /\ exc' = Raise("IndexError")
            /\ stderr' = Append(stderr, Line("Traceback", "", 0, "IndexError"))
            /\ UNCHANGED stdout
    /\ exit_status' = 1
    /\ pc' = "done"
    /\ UNCHANGED <<argv, fs, tokenizer, filepath, f, ret, file_content,
                   num_tokens, calls, prev>>

\* Faulty variant of AssignFilepath: filepath = sys.argv[-1], the last argument.
AssignFilepathLast ==
    /\ pc = "assign"
    /\ filepath' = argv[Len(argv)]
    /\ pc' = "open"
    /\ UNCHANGED <<argv, fs, tokenizer, f, ret, file_content, num_tokens, exc,
                   stdout, stderr, exit_status, calls, prev>>

\* Line 23: filepath = sys.argv[1]
AssignFilepath ==
    /\ pc = "assign"
    /\ filepath' = argv[2]
    /\ pc' = "open"
    /\ UNCHANGED <<argv, fs, tokenizer, f, ret, file_content, num_tokens, exc,
                   stdout, stderr, exit_status, calls, prev>>

\* Faulty variant of OpenFile: mode 'w+', which creates or empties the file
\* as it is opened.
OpenFileTruncating ==
    /\ pc = "open"
    /\ calls' = [calls EXCEPT !.read = @ + 1]
    /\ IF fs[filepath].kind = "denied"
       THEN /\ exc' = Raise("PermissionError")
            /\ pc' = "except"
            /\ UNCHANGED <<f, fs>>
       ELSE /\ f' = "open"
            /\ fs' = [fs EXCEPT ![filepath] = [kind |-> "file", bytes |-> <<>>]]
            /\ pc' = "read"
            /\ UNCHANGED exc
    /\ UNCHANGED <<argv, tokenizer, filepath, ret, file_content, num_tokens,
                   stdout, stderr, exit_status, prev>>

\* Line 25 calling line 14: open(filepath, 'r', encoding='utf-8')
OpenFile ==
    /\ pc = "open"
    /\ calls' = [calls EXCEPT !.read = @ + 1]
    /\ CASE fs[filepath].kind = "missing" ->
                /\ exc' = Raise("FileNotFoundError")
                /\ pc' = "except"
                /\ UNCHANGED f
         [] fs[filepath].kind = "denied" ->
                /\ exc' = Raise("PermissionError")
                /\ pc' = "except"
                /\ UNCHANGED f
         [] OTHER ->
                /\ f' = "open"
                /\ pc' = "read"
                /\ UNCHANGED exc
    /\ UNCHANGED <<argv, fs, tokenizer, filepath, ret, file_content,
                   num_tokens, stdout, stderr, exit_status, prev>>

\* Line 15: f.read(), decoding the file's bytes
ReadAll ==
    /\ pc = "read"
    /\ LET d == Utf8Decode(fs[filepath].bytes)
       IN  IF d.ok
           THEN ret' = d.text /\ UNCHANGED exc
           ELSE exc' = Raise("UnicodeDecodeError") /\ UNCHANGED ret
    /\ pc' = "with_exit"
    /\ UNCHANGED <<argv, fs, tokenizer, filepath, f, file_content, num_tokens,
                   stdout, stderr, exit_status, calls, prev>>

\* Faulty variant of WithExit: f.close() after the read instead of a with
\* statement, so an exception raised by the read leaves the file open.
WithExitLeaky ==
    /\ pc = "with_exit"
    /\ IF exc = NoExc
       THEN /\ f' = "closed"
            /\ file_content' = ret
            /\ calls' = [calls EXCEPT !.readOk = @ + 1]
            /\ pc' = "count"
       ELSE /\ pc' = "except"
            /\ UNCHANGED <<f, file_content, calls>>
    /\ UNCHANGED <<argv, fs, tokenizer, filepath, ret, num_tokens, exc, stdout,
                   stderr, exit_status, prev>>

\* Faulty variant of WithExit: the file is deleted once it has been read.
WithExitUnlink ==
    /\ pc = "with_exit"
    /\ f' = "closed"
    /\ fs' = [fs EXCEPT ![filepath] = [kind |-> "missing", bytes |-> <<>>]]
    /\ IF exc = NoExc
       THEN /\ file_content' = ret
            /\ calls' = [calls EXCEPT !.readOk = @ + 1]
            /\ pc' = "count"
       ELSE /\ pc' = "except"
            /\ UNCHANGED <<file_content, calls>>
    /\ UNCHANGED <<argv, tokenizer, filepath, ret, num_tokens, exc, stdout,
                   stderr, exit_status, prev>>

\* Lines 14-15: leaving the with block closes the file, whether the block
\* returns or raises; then read_file returns to line 25 or the exception
\* propagates to main's try statement.
WithExit ==
    /\ pc = "with_exit"
    /\ f' = "closed"
    /\ IF exc = NoExc
       THEN /\ file_content' = ret
            /\ calls' = [calls EXCEPT !.readOk = @ + 1]
            /\ pc' = "count"
       ELSE /\ pc' = "except"
            /\ UNCHANGED <<file_content, calls>>
    /\ UNCHANGED <<argv, fs, tokenizer, filepath, ret, num_tokens, exc, stdout,
                   stderr, exit_status, prev>>

\* Line 26 calling line 8: tiktoken.encoding_for_model("gpt-5")
LoadEncoding ==
    /\ pc = "count"
    /\ calls' = [calls EXCEPT !.count = @ + 1]
    /\ IF tokenizer = "ok"
       THEN pc' = "encode" /\ UNCHANGED exc
       ELSE pc' = "except" /\ exc' = Raise(tokenizer)
    /\ UNCHANGED <<argv, fs, tokenizer, filepath, f, ret, file_content,
                   num_tokens, stdout, stderr, exit_status, prev>>

\* Lines 9-10: return len(enc.encode(text)), assigned at line 26
EncodeText ==
    /\ pc = "encode"
    /\ num_tokens' = Len(Encode(file_content))
    /\ calls' = [calls EXCEPT !.countOk = @ + 1]
    /\ pc' = "print_file"
    /\ UNCHANGED <<argv, fs, tokenizer, filepath, f, ret, file_content, exc,
                   stdout, stderr, exit_status, prev>>

\* Line 27: print(f"File: {filepath}")
PrintFile ==
    /\ pc = "print_file"
    /\ stdout' = Append(stdout, Line("File", filepath, 0, "None"))
    /\ pc' = "print_tokens"
    /\ UNCHANGED <<argv, fs, tokenizer, filepath, f, ret, file_content,
                   num_tokens, exc, stderr, exit_status, calls, prev>>

\* Line 28: print(f"Number of tokens: {num_tokens}")
PrintTokens ==
    /\ pc = "print_tokens"
    /\ stdout' = Append(stdout, Line("Tokens", "", num_tokens, "None"))
    /\ pc' = "return"
    /\ UNCHANGED <<argv, fs, tokenizer, filepath, f, ret, file_content,
                   num_tokens, exc, stderr, exit_status, calls, prev>>

\* Lines 36-37: main() returns and the interpreter exits with status 0
Return ==
    /\ pc = "return"
    /\ exit_status' = 0
    /\ pc' = "done"
    /\ UNCHANGED <<argv, fs, tokenizer, filepath, f, ret, file_content,
                   num_tokens, exc, stdout, stderr, calls, prev>>

\* Faulty variant of Except: the handler starts the read again.
ExceptRetry ==
    /\ pc = "except"
    /\ pc' = "open"
    /\ UNCHANGED <<argv, fs, tokenizer, filepath, f, ret, file_content,
                   num_tokens, exc, stdout, stderr, exit_status, calls, prev>>

\* Lines 29 and 32: the try statement picks the except clause for the
\* exception raised in its body.
Except ==
    /\ pc = "except"
    /\ pc' = HandlerFor(exc)
    /\ UNCHANGED <<argv, fs, tokenizer, filepath, f, ret, file_content,
                   num_tokens, exc, stdout, stderr, exit_status, calls, prev>>

\* Line 30: print(f"Error: File not found at '{filepath}'")
PrintNotFound ==
    /\ pc = "handler_fnf"
    /\ stdout' = Append(stdout, Line("NotFound", filepath, 0, "None"))
    /\ pc' = "exit"
    /\ UNCHANGED <<argv, fs, tokenizer, filepath, f, ret, file_content,
                   num_tokens, exc, stderr, exit_status, calls, prev>>

\* Faulty variant of PrintError: no sys.exit(1) follows, the handler ends and
\* main() returns.
PrintErrorNoExit ==
    /\ pc = "handler_exc"
    /\ stdout' = Append(stdout, Line("Error", "", 0, exc.type))
    /\ pc' = "return"
    /\ UNCHANGED <<argv, fs, tokenizer, filepath, f, ret, file_content,
                   num_tokens, exc, stderr, exit_status, calls, prev>>

\* Line 33: print(f"An error occurred: {e}")
PrintError ==
    /\ pc = "handler_exc"
    /\ stdout' = Append(stdout, Line("Error", "", 0, exc.type))
    /\ pc' = "exit"
    /\ UNCHANGED <<argv, fs, tokenizer, filepath, f, ret, file_content,
                   num_tokens, exc, stderr, exit_status, calls, prev>>

\* Lines 31 and 34: sys.exit(1)
SysExit ==
    /\ pc = "exit"
    /\ exit_status' = 1
    /\ pc' = "done"
    /\ UNCHANGED <<argv, fs, tokenizer, filepath, f, ret, file_content,
                   num_tokens, exc, stdout, stderr, calls, prev>>

\* The script is started again (line 36-37 in a new process): nothing of the
\* process that ended is left but what it printed and its status, which prev
\* keeps for comparison; the file system and the tokenizer stay.
NewRun ==
    /\ pc = "done"
    /\ prev' = [valid |-> TRUE, argv |-> argv, stdout |-> stdout,
                exit_status |-> exit_status]
    /\ argv' \in ArgvSet
    /\ pc' = "main"
    /\ filepath' = ""
    /\ f' = "none"
    /\ ret' = <<>>
    /\ file_content' = <<>>
    /\ num_tokens' = -1
    /\ exc' = NoExc
    /\ stdout' = <<>>
    /\ stderr' = <<>>
    /\ exit_status' = -1
    /\ calls' = NoCalls
    /\ UNCHANGED <<fs, tokenizer>>

Next ==
    \/ ArgCheck
    \/ Usage
    \/ AssignFilepath
    \/ OpenFile
    \/ ReadAll
    \/ WithExit
    \/ LoadEncoding
    \/ EncodeText
    \/ PrintFile
    \/ PrintTokens
    \/ Return
    \/ Except
    \/ PrintNotFound
    \/ PrintError
    \/ SysExit
    \/ NewRun

Spec == Init /\ [][Next]_vars

\* ------------------------------------------------------------ properties

Terminated == pc = "done"

\* The positions in standard output of the lines of one kind.
LinesOf(out, kind) == {i \in 1..Len(out) : out[i].kind = kind}

\* The token counts a run printed.
CountsPrinted(out) == {out[i].n : i \in LinesOf(out, "Tokens")}

\* The file named by the first argument can be opened and is UTF-8.
Readable(p) == fs[p].kind = "file" /\ Utf8Decode(fs[p].bytes).ok

\* C1: a run given no argument ends with a usage message on the console and
\* exit status 1, having called neither read_file nor count_tokens.
C1_UsageOnMissingArgument ==
    (Terminated /\ Len(argv) < 2) =>
        /\ LinesOf(stdout, "Usage") # {}
        /\ exit_status = 1
        /\ calls.read = 0
        /\ calls.count = 0

\* C2: a run given a path that does not exist never calls count_tokens, and
\* ends having printed exactly one "file not found" message, which names that
\* path, with exit status 1.
C2_FileNotFound ==
    (Len(argv) >= 2 /\ fs[argv[2]].kind = "missing") =>
        /\ calls.count = 0
        /\ Terminated =>
            /\ Cardinality(LinesOf(stdout, "NotFound")) = 1
            /\ \A i \in LinesOf(stdout, "NotFound") : stdout[i].path = argv[2]
            /\ exit_status = 1

C2_Witness ==
    /\ Terminated
    /\ Len(argv) >= 2
    /\ fs[argv[2]].kind = "missing"
    /\ LinesOf(stdout, "NotFound") # {}

\* C3: a run ends with exit status 0 or 1, and with 0 exactly when an argument
\* was given and read_file and count_tokens both returned (which is when the
\* file is readable UTF-8 and the tokenizer loads).
C3_ExitStatus ==
    Terminated =>
        /\ exit_status \in {0, 1}
        /\ exit_status = 0 <=>
            (Len(argv) >= 2 /\ calls.readOk = 1 /\ calls.countOk = 1)
        /\ exit_status = 0 <=>
            (Len(argv) >= 2 /\ Readable(argv[2]) /\ tokenizer = "ok")

\* A successful run that follows a failed one.
C3_Witness ==
    /\ Terminated
    /\ exit_status = 0
    /\ prev.valid
    /\ prev.exit_status = 1

\* C4: a successful run has printed exactly the file line then the token
\* line; a failed run has printed exactly one line, describing the error.
C4_OutputShape ==
    Terminated =>
        IF exit_status = 0
        THEN stdout = <<Line("File", argv[2], 0, "None"),
                        Line("Tokens", "", num_tokens, "None")>>
        ELSE /\ Len(stdout) = 1
             /\ stdout[1].kind \in {"Usage", "NotFound", "Error"}

\* C5: when read_file returned and the tokenizer raised, the run prints the
\* generic error line and exits with 1; a "file not found" line is printed
\* only when the path given on the command line does not exist.
C5_TokenizerFailureIsGeneric ==
    Terminated =>
        /\ (calls.readOk = 1 /\ calls.countOk = 0) =>
            /\ Len(stdout) = 1
            /\ stdout[1].kind = "Error"
            /\ exit_status = 1
        /\ LinesOf(stdout, "NotFound") # {} =>
            (Len(argv) >= 2 /\ fs[argv[2]].kind = "missing")

\* C6: while count_tokens runs, while output is printed, while an exception
\* is handled and once the process has ended, the file read_file opened is
\* not open; it is open only between open() and the end of the with block.
C6_HandleScoped ==
    /\ pc \in {"count", "encode", "print_file", "print_tokens", "return",
               "except", "handler_fnf", "handler_exc", "exit", "done"}
            => f # "open"
    /\ f = "open" => pc \in {"read", "with_exit"}

\* A run that ended after the read failed on an open file.
C6_Witness ==
    /\ Terminated
    /\ exc.type = "UnicodeDecodeError"
    /\ f = "closed"

C7_State ==
    /\ calls.read <= 1
    /\ calls.count <= 1
    /\ calls.count >= 1 => calls.readOk = 1

C7_Step ==
    (exc # NoExc /\ ~Terminated) =>
        (calls'.read = calls.read /\ calls'.count = calls.count)

\* C7: in a run read_file is called at most once and count_tokens at most
\* once, count_tokens only after read_file returned, and after an error no
\* step of the run calls either again.
C7_NoRetry == []C7_State /\ [][C7_Step]_vars

\* A run that ended on a tokenizer error after one read and one count.
C7_Witness ==
    /\ Terminated
    /\ exc # NoExc
    /\ calls.read = 1
    /\ calls.count = 1

C10_ExtraArgumentsIgnored ==
    Len(argv) >= 3 =>
        /\ pc # "usage"
        /\ filepath \in {"", argv[2]}
        /\ (Terminated /\ prev.valid /\ prev.argv = SubSeq(argv, 1, 2)) =>
            (stdout = prev.stdout /\ exit_status = prev.exit_status)

\* A successful run whose second argument names another path, after the run
\* given its first argument alone.
C10_Witness ==
    /\ Terminated
    /\ Len(argv) >= 3
    /\ argv[3] # argv[2]
    /\ prev.valid
    /\ prev.argv = SubSeq(argv, 1, 2)
    /\ exit_status = 0

====
